---- MODULE Spec2Model ----
(***************************************************************************)
(* The Picorules documentation site: the hash router                       *)
(* (src/src/hooks/useHashRouter.ts) and the App component                  *)
(* (src/src/App.tsx) over the document registry (src/docs.ts), together    *)
(* with the part of the browser they talk to: window.location.hash, the    *)
(* session history, the queue of hashchange events, localStorage, the      *)
(* colour-scheme media query and the class list of the root element.       *)
(*                                                                         *)
(* Strings are sequences of one-character strings, so that startsWith,     *)
(* replace and the regular expression of parseHash are computed character  *)
(* by character.                                                           *)
(***************************************************************************)
EXTENDS Integers, Sequences, FiniteSets, TLC

VARIABLES
    build,      \* the build of the site that is loaded: names its registry
    entries,    \* session history: the value of location.hash of each entry
    idx,        \* position of the current entry in entries (1-based)
    route,      \* the Route held by useState in useHashRouter
    pending,    \* hashchange events queued and not yet handled
    selectedDocId,  \* App: useState(docs[0].id)
    query,          \* App: useState(''), the text of the search box
    theme,          \* App: useState<'light' | 'dark'>
    localStorage,   \* the item 'theme' of localStorage: <<>> (null) or <<s>>
    prefersDark,    \* matchMedia('(prefers-color-scheme: dark)').matches
    rootDark,       \* document.documentElement.classList has 'dark'
    effects         \* App: the effects scheduled by the last commit, in order

routerVars == <<entries, idx, route, pending>>
appVars ==
    <<selectedDocId, query, theme, localStorage, prefersDark, rootDark,
      effects>>
vars == <<build, routerVars, appVars>>

(***************************************************************************)
(* Bounds                                                                  *)
(***************************************************************************)
\* Entries the session history keeps; the oldest entry is dropped beyond it.
MaxHist == 2
\* Hashchange events that may be queued at once by the user and the caller.
MaxPending == 2
\* Registry records (the first ones, in registry order) that the links, the
\* address bar and the callers of navigate refer to during a session.
MaxLinked == 2

(***************************************************************************)
(* String helpers (JavaScript String methods used by parseHash)            *)
(***************************************************************************)
\* s.startsWith(p)
StartsWith(s, p) ==
    /\ Len(s) >= Len(p)
    /\ SubSeq(s, 1, Len(p)) = p

\* The positions at which pat occurs in s.
Occurrences(s, pat) ==
    {i \in 1..(Len(s) - Len(pat) + 1) : SubSeq(s, i, i + Len(pat) - 1) = pat}

\* s.replace(pat, rep) with a string pattern: the first occurrence only.
StrReplace(s, pat, rep) ==
    IF Occurrences(s, pat) = {}
    THEN s
    ELSE LET i == CHOOSE k \in Occurrences(s, pat) :
                     \A j \in Occurrences(s, pat) : k <= j
         IN  SubSeq(s, 1, i - 1) \o rep \o SubSeq(s, i + Len(pat), Len(s))

\* Characters the regular expression atom "." does not match.
LineTerminators == {"\n", "\r"}

\* Mutant of MatchCanonical: the group also captures the separator, as
\* /^#(\/.+)$/ would.
MatchCanonicalWithSlash(h) ==
    IF /\ Len(h) >= 3
       /\ h[1] = "#"
       /\ h[2] = "/"
       /\ \A i \in 3..Len(h) : h[i] \notin LineTerminators
    THEN <<SubSeq(h, 2, Len(h))>>
    ELSE <<>>

\* hash.match(/^#\/(.+)$/): the sequence of capture groups, <<>> for no match.
MatchCanonical(h) ==
    IF /\ Len(h) >= 3
       /\ h[1] = "#"
       /\ h[2] = "/"
       /\ \A i \in 3..Len(h) : h[i] \notin LineTerminators
    THEN <<SubSeq(h, 3, Len(h))>>
    ELSE <<>>

\* The letters String.prototype.toLowerCase changes, and what it makes of
\* them.
UpperCase ==
    <<"A", "B", "C", "D", "E", "F", "G", "H", "I", "J", "K", "L", "M",
      "N", "O", "P", "Q", "R", "S", "T", "U", "V", "W", "X", "Y", "Z">>
LowerCase ==
    <<"a", "b", "c", "d", "e", "f", "g", "h", "i", "j", "k", "l", "m",
      "n", "o", "p", "q", "r", "s", "t", "u", "v", "w", "x", "y", "z">>

\* s.toLowerCase()
ToLowerCase(s) ==
    [i \in 1..Len(s) |->
        IF \E k \in DOMAIN UpperCase : UpperCase[k] = s[i]
        THEN LowerCase[CHOOSE k \in DOMAIN UpperCase : UpperCase[k] = s[i]]
        ELSE s[i]]

\* The white space and line terminators String.prototype.trim removes.
WhiteSpace == {" ", "\t", "\n", "\r", "\f"}

\* s.trim()
Trim(s) ==
    IF \A i \in 1..Len(s) : s[i] \in WhiteSpace
    THEN <<>>
    ELSE LET first == CHOOSE i \in 1..Len(s) :
                         /\ s[i] \notin WhiteSpace
                         /\ \A j \in 1..(i - 1) : s[j] \in WhiteSpace
             last == CHOOSE i \in 1..Len(s) :
                         /\ s[i] \notin WhiteSpace
                         /\ \A j \in (i + 1)..Len(s) : s[j] \in WhiteSpace
         IN  SubSeq(s, first, last)

\* s.includes(q)
Includes(s, q) ==
    \E i \in 0..(Len(s) - Len(q)) : SubSeq(s, i + 1, i + Len(q)) = q

(***************************************************************************)
(* Routes                                                                  *)
(***************************************************************************)
Landing == [type |-> "landing"]
Doc(docId) == [type |-> "doc", docId |-> docId]

\* Mutant of CanonicalHash: the separator is left out, `#${docId}`.
CanonicalHashNoSlash(docId) == <<"#">> \o docId

\* `#/${docId}`
CanonicalHash(docId) == <<"#", "/">> \o docId

\* The legacy form "#doc-" + docId
LegacyPrefix == <<"#", "d", "o", "c", "-">>
LegacyHash(docId) == LegacyPrefix \o docId

(***************************************************************************)
(* Document registry (docs.ts)                                             *)
(***************************************************************************)
\* The registry of the current build, in display order.  content names the
\* Markdown file whose raw text the record carries.
docsCurrent ==
    <<
      [id |-> <<"i", "n", "t", "r", "o", "d", "u", "c", "t", "i", "o", "n">>,
       title |->
         <<"I", "n", "t", "r", "o", "d", "u", "c", "t", "i", "o", "n">>,
       description |->
         <<"W", "h", "a", "t", " ", "i", "s", " ", "P", "i", "c", "o", "r",
           "u", "l", "e", "s", " ", "a", "n", "d", " ", "w", "h", "y", " ",
           "i", "t", " ", "e", "x", "i", "s", "t", "s">>,
       content |-> "01-introduction.md"],
      [id |-> <<"t", "u", "t", "o", "r", "i", "a", "l">>,
       title |->
         <<"T", "u", "t", "o", "r", "i", "a", "l">>,
       description |->
         <<"S", "t", "e", "p", "-", "b", "y", "-", "s", "t", "e", "p", " ",
           "g", "u", "i", "d", "e", " ", "t", "o", " ", "w", "r", "i", "t",
           "i", "n", "g", " ", "y", "o", "u", "r", " ", "f", "i", "r", "s",
           "t", " ", "r", "u", "l", "e", "b", "l", "o", "c", "k", "s">>,
       content |-> "02-tutorial.md"],
      [id |-> <<"l", "a", "n", "g", "u", "a", "g", "e", "-", "r", "e", "f",
               "e", "r", "e", "n", "c", "e">>,
       title |->
         <<"L", "a", "n", "g", "u", "a", "g", "e", " ", "R", "e", "f", "e",
           "r", "e", "n", "c", "e">>,
       description |->
         <<"C", "o", "m", "p", "l", "e", "t", "e", " ", "s", "y", "n", "t",
           "a", "x", " ", "s", "p", "e", "c", "i", "f", "i", "c", "a", "t",
           "i", "o", "n", " ", "f", "o", "r", " ", "f", "u", "n", "c", "t",
           "i", "o", "n", "a", "l", " ", "a", "n", "d", " ", "c", "o", "n",
           "d", "i", "t", "i", "o", "n", "a", "l", " ", "s", "t", "a", "t",
           "e", "m", "e", "n", "t", "s">>,
       content |-> "03-language-reference.md"],
      [id |-> <<"e", "a", "d", "v", "-", "m", "o", "d", "e", "l">>,
       title |->
         <<"E", "A", "D", "V", " ", "M", "o", "d", "e", "l">>,
       description |->
         <<"U", "n", "d", "e", "r", "s", "t", "a", "n", "d", "i", "n", "g",
           " ", "t", "h", "e", " ", "E", "n", "t", "i", "t", "y", "-", "A",
           "t", "t", "r", "i", "b", "u", "t", "e", "-", "D", "a", "t", "e",
           "-", "V", "a", "l", "u", "e", " ", "d", "a", "t", "a", " ", "s",
           "t", "r", "u", "c", "t", "u", "r", "e">>,
       content |-> "04-eadv-model.md"],
      [id |-> <<"f", "u", "n", "c", "t", "i", "o", "n", "s", "-", "r", "e",
               "f", "e", "r", "e", "n", "c", "e">>,
       title |->
         <<"F", "u", "n", "c", "t", "i", "o", "n", "s", " ", "R", "e", "f",
           "e", "r", "e", "n", "c", "e">>,
       description |->
         <<"C", "o", "m", "p", "l", "e", "t", "e", " ", "r", "e", "f", "e",
           "r", "e", "n", "c", "e", " ", "o", "f", " ", "a", "l", "l", " ",
           "a", "v", "a", "i", "l", "a", "b", "l", "e", " ", "f", "u", "n",
           "c", "t", "i", "o", "n", "s", " ", "a", "n", "d", " ", "o", "p",
           "e", "r", "a", "t", "o", "r", "s">>,
       content |-> "05-functions-reference.md"],
      [id |-> <<"j", "i", "n", "j", "a", "2", "-", "t", "e", "m", "p", "l",
               "a", "t", "i", "n", "g">>,
       title |->
         <<"J", "i", "n", "j", "a", "2", " ", "T", "e", "m", "p", "l", "a",
           "t", "i", "n", "g">>,
       description |->
         <<"C", "r", "e", "a", "t", "i", "n", "g", " ", "d", "a", "s", "h",
           "b", "o", "a", "r", "d", " ", "t", "e", "m", "p", "l", "a", "t",
           "e", "s", " ", "w", "i", "t", "h", " ", "J", "i", "n", "j", "a",
           "2", " ", "s", "y", "n", "t", "a", "x">>,
       content |-> "06-jinja2-templating.md"],
      [id |-> <<"e", "x", "a", "m", "p", "l", "e", "s">>,
       title |->
         <<"E", "x", "a", "m", "p", "l", "e", "s", " ", "&", " ", "C", "o",
           "o", "k", "b", "o", "o", "k">>,
       description |->
         <<"R", "e", "a", "l", "-", "w", "o", "r", "l", "d", " ", "c", "l",
           "i", "n", "i", "c", "a", "l", " ", "p", "a", "t", "t", "e", "r",
           "n", "s", " ", "a", "n", "d", " ", "c", "o", "m", "p", "l", "e",
           "t", "e", " ", "r", "u", "l", "e", "b", "l", "o", "c", "k", " ",
           "e", "x", "a", "m", "p", "l", "e", "s">>,
       content |-> "07-examples.md"],
      [id |-> <<"d", "e", "v", "e", "l", "o", "p", "e", "r", "s">>,
       title |->
         <<"D", "e", "v", "e", "l", "o", "p", "e", "r", "s">>,
       description |->
         <<"C", "o", "r", "e", " ", "t", "e", "a", "m", ",", " ", "c", "o",
           "n", "t", "r", "i", "b", "u", "t", "i", "n", "g", " ", "g", "u",
           "i", "d", "e", "l", "i", "n", "e", "s", ",", " ", "a", "n", "d",
           " ", "p", "r", "o", "j", "e", "c", "t", " ", "a", "r", "c", "h",
           "i", "t", "e", "c", "t", "u", "r", "e">>,
       content |-> "08-developers.md"]
    >>

\* Mutant of docsEarlier: the third record was copied from the second and
\* its id was left as it was.
docsEarlierCopiedId ==
    <<
      [id |-> <<"o", "v", "e", "r", "v", "i", "e", "w">>,
       title |->
         <<"P", "i", "c", "o", "r", "u", "l", "e", "s", " ", "O", "v", "e",
           "r", "v", "i", "e", "w">>,
       description |->
         <<"H", "i", "g", "h", "-", "l", "e", "v", "e", "l", " ", "m", "o",
           "t", "i", "v", "a", "t", "i", "o", "n", ",", " ", "r", "e", "p",
           "o", "s", "i", "t", "o", "r", "y", " ", "l", "a", "y", "o", "u",
           "t", ",", " ", "a", "n", "d", " ", "c", "o", "r", "e", " ", "a",
           "r", "c", "h", "i", "t", "e", "c", "t", "u", "r", "e", " ", "c",
           "o", "n", "c", "e", "p", "t", "s", ".">>,
       content |-> "overview.md"],
      [id |-> <<"l", "a", "n", "g", "u", "a", "g", "e">>,
       title |->
         <<"L", "a", "n", "g", "u", "a", "g", "e", " ", "&", " ", "S", "y",
           "n", "t", "a", "x">>,
       description |->
         <<"S", "t", "a", "t", "e", "m", "e", "n", "t", " ", "t", "y", "p",
           "e", "s", ",", " ", "d", "i", "r", "e", "c", "t", "i", "v", "e",
           "s", ",", " ", "a", "n", "d", " ", "i", "d", "i", "o", "m", "a",
           "t", "i", "c", " ", "P", "i", "c", "o", "r", "u", "l", "e", "s",
           " ", "p", "a", "t", "t", "e", "r", "n", "s", ".">>,
       content |-> "language.md"],
      [id |-> <<"l", "a", "n", "g", "u", "a", "g", "e">>,
       title |->
         <<"W", "o", "r", "k", "i", "n", "g", " ", "w", "i", "t", "h", " ",
           "R", "u", "l", "e", "b", "l", "o", "c", "k", "s">>,
       description |->
         <<"N", "a", "m", "i", "n", "g", " ", "c", "o", "n", "v", "e", "n",
           "t", "i", "o", "n", "s", ",", " ", "u", "p", "d", "a", "t", "e",
           " ", "w", "o", "r", "k", "f", "l", "o", "w", "s", ",", " ", "a",
           "n", "d", " ", "c", "i", "t", "a", "t", "i", "o", "n", " ", "u",
           "s", "a", "g", "e", ".">>,
       content |-> "ruleblocks.md"],
      [id |-> <<"t", "e", "m", "p", "l", "a", "t", "e", "s">>,
       title |->
         <<"T", "e", "m", "p", "l", "a", "t", "e", "s", " ", "&", " ", "D",
           "e", "v", "e", "l", "o", "p", "m", "e", "n", "t", " ", "N", "o",
           "t", "e", "s">>,
       description |->
         <<"T", "e", "m", "p", "l", "a", "t", "e", " ", "p", "a", "c", "k",
           " ", "s", "t", "r", "u", "c", "t", "u", "r", "e", " ", "p", "l",
           "u", "s", " ", "o", "p", "e", "r", "a", "t", "i", "o", "n", "a",
           "l", " ", "g", "u", "a", "r", "d", "r", "a", "i", "l", "s", " ",
           "f", "o", "r", " ", "r", "o", "l", "l", "o", "u", "t", "s", ".">>,
       content |-> "templates-and-development.md"]
    >>

\* The registry of the earlier build.
docsEarlier ==
    <<
      [id |-> <<"o", "v", "e", "r", "v", "i", "e", "w">>,
       title |->
         <<"P", "i", "c", "o", "r", "u", "l", "e", "s", " ", "O", "v", "e",
           "r", "v", "i", "e", "w">>,
       description |->
         <<"H", "i", "g", "h", "-", "l", "e", "v", "e", "l", " ", "m", "o",
           "t", "i", "v", "a", "t", "i", "o", "n", ",", " ", "r", "e", "p",
           "o", "s", "i", "t", "o", "r", "y", " ", "l", "a", "y", "o", "u",
           "t", ",", " ", "a", "n", "d", " ", "c", "o", "r", "e", " ", "a",
           "r", "c", "h", "i", "t", "e", "c", "t", "u", "r", "e", " ", "c",
           "o", "n", "c", "e", "p", "t", "s", ".">>,
       content |-> "overview.md"],
      [id |-> <<"l", "a", "n", "g", "u", "a", "g", "e">>,
       title |->
         <<"L", "a", "n", "g", "u", "a", "g", "e", " ", "&", " ", "S", "y",
           "n", "t", "a", "x">>,
       description |->
         <<"S", "t", "a", "t", "e", "m", "e", "n", "t", " ", "t", "y", "p",
           "e", "s", ",", " ", "d", "i", "r", "e", "c", "t", "i", "v", "e",
           "s", ",", " ", "a", "n", "d", " ", "i", "d", "i", "o", "m", "a",
           "t", "i", "c", " ", "P", "i", "c", "o", "r", "u", "l", "e", "s",
           " ", "p", "a", "t", "t", "e", "r", "n", "s", ".">>,
       content |-> "language.md"],
      [id |-> <<"r", "u", "l", "e", "b", "l", "o", "c", "k", "s">>,
       title |->
         <<"W", "o", "r", "k", "i", "n", "g", " ", "w", "i", "t", "h", " ",
           "R", "u", "l", "e", "b", "l", "o", "c", "k", "s">>,
       description |->
         <<"N", "a", "m", "i", "n", "g", " ", "c", "o", "n", "v", "e", "n",
           "t", "i", "o", "n", "s", ",", " ", "u", "p", "d", "a", "t", "e",
           " ", "w", "o", "r", "k", "f", "l", "o", "w", "s", ",", " ", "a",
           "n", "d", " ", "c", "i", "t", "a", "t", "i", "o", "n", " ", "u",
           "s", "a", "g", "e", ".">>,
       content |-> "ruleblocks.md"],
      [id |-> <<"t", "e", "m", "p", "l", "a", "t", "e", "s">>,
       title |->
         <<"T", "e", "m", "p", "l", "a", "t", "e", "s", " ", "&", " ", "D",
           "e", "v", "e", "l", "o", "p", "m", "e", "n", "t", " ", "N", "o",
           "t", "e", "s">>,
       description |->
         <<"T", "e", "m", "p", "l", "a", "t", "e", " ", "p", "a", "c", "k",
           " ", "s", "t", "r", "u", "c", "t", "u", "r", "e", " ", "p", "l",
           "u", "s", " ", "o", "p", "e", "r", "a", "t", "i", "o", "n", "a",
           "l", " ", "g", "u", "a", "r", "d", "r", "a", "i", "l", "s", " ",
           "f", "o", "r", " ", "r", "o", "l", "l", "o", "u", "t", "s", ".">>,
       content |-> "templates-and-development.md"]
    >>

\* A registry in which one id itself begins with the legacy marker "doc-"
\* (spec.md, section 9, open question).
docsPrefixed ==
    <<
      [id |-> <<"i", "n", "t", "r", "o">>,
       title |->
         <<"I", "n", "t", "r", "o">>,
       description |->
         <<"A", " ", "s", "h", "o", "r", "t", " ", "i", "n", "t", "r", "o",
           "d", "u", "c", "t", "i", "o", "n">>,
       content |-> "intro.md"],
      [id |-> <<"d", "o", "c", "-", "i", "n", "t", "r", "o">>,
       title |->
         <<"D", "o", "c", " ", "I", "n", "t", "r", "o">>,
       description |->
         <<"A", " ", "d", "o", "c", "u", "m", "e", "n", "t", " ", "a", "b",
           "o", "u", "t", " ", "t", "h", "e", " ", "i", "n", "t", "r", "o",
           "d", "u", "c", "t", "i", "o", "n">>,
       content |-> "doc-intro.md"]
    >>

\* The registry each build of the site carries.
RegistryOf(b) ==
    CASE b = "current" -> docsCurrent
      [] b = "earlier" -> docsEarlier
      [] b = "prefixed" -> docsPrefixed

\* The builds the router is checked with (the earlier build had no router).
Builds == {"current", "prefixed"}

\* import { docs } from '../docs': the registry of the loaded build.
docs == RegistryOf(build)

\* The ids of a registry.
Ids(ds) == {ds[i].id : i \in 1..Len(ds)}

\* Mutant of Find: a record matches when docId begins with its id, as
\* docId.startsWith(d.id) would.
FindByPrefix(ds, docId) ==
    IF \E i \in 1..Len(ds) : StartsWith(docId, ds[i].id)
    THEN LET i == CHOOSE k \in 1..Len(ds) :
                     /\ StartsWith(docId, ds[k].id)
                     /\ \A j \in 1..(k - 1) : ~StartsWith(docId, ds[j].id)
         IN  <<ds[i]>>
    ELSE <<>>

\* Mutant of Find: ids are compared without regard to case.
FindIgnoringCase(ds, docId) ==
    IF \E i \in 1..Len(ds) : ToLowerCase(ds[i].id) = ToLowerCase(docId)
    THEN LET i == CHOOSE k \in 1..Len(ds) :
                     /\ ToLowerCase(ds[k].id) = ToLowerCase(docId)
                     /\ \A j \in 1..(k - 1) :
                            ToLowerCase(ds[j].id) # ToLowerCase(docId)
         IN  <<ds[i]>>
    ELSE <<>>

\* ds.find((d) => d.id === docId): <<record>> of the first match, <<>> for
\* undefined.
Find(ds, docId) ==
    IF \E i \in 1..Len(ds) : ds[i].id = docId
    THEN LET i == CHOOSE k \in 1..Len(ds) :
                     /\ ds[k].id = docId
                     /\ \A j \in 1..(k - 1) : ds[j].id # docId
         IN  <<ds[i]>>
    ELSE <<>>

(***************************************************************************)
(* parseHash                                                               *)
(***************************************************************************)
\* hash === '' (falsy), '#' or '#/'
IsBareHash(h) == h = <<>> \/ h = <<"#">> \/ h = <<"#", "/">>

\* Mutant of ParseHash: the canonical rule returns the segment without
\* looking it up in the registry.
ParseHashUnvalidated(h, ds) ==
    IF IsBareHash(h)
    THEN [route |-> Landing, writes |-> <<>>]
    ELSE LET legacyId == StrReplace(h, LegacyPrefix, <<>>)
             match == MatchCanonical(h)
         IN  IF StartsWith(h, LegacyPrefix) /\ Find(ds, legacyId) # <<>>
             THEN [route |-> Doc(legacyId),
                   writes |-> <<CanonicalHash(legacyId)>>]
             ELSE IF match # <<>>
                  THEN [route |-> Doc(match[1]), writes |-> <<>>]
                  ELSE [route |-> Landing, writes |-> <<>>]

\* Mutant of ParseHash: a bare fragment opens the first document, as the
\* application did before it had a landing page.
ParseHashDefaultDoc(h, ds) ==
    IF IsBareHash(h)
    THEN [route |-> Doc(ds[1].id), writes |-> <<>>]
    ELSE LET legacyId == StrReplace(h, LegacyPrefix, <<>>)
             match == MatchCanonical(h)
         IN  IF StartsWith(h, LegacyPrefix) /\ Find(ds, legacyId) # <<>>
             THEN [route |-> Doc(legacyId),
                   writes |-> <<CanonicalHash(legacyId)>>]
             ELSE IF match # <<>> /\ Find(ds, match[1]) # <<>>
                  THEN [route |-> Doc(match[1]), writes |-> <<>>]
                  ELSE [route |-> Landing, writes |-> <<>>]

\* Mutant of ParseHash: the legacy rule resolves the document but does not
\* rewrite the fragment.
ParseHashNoRedirect(h, ds) ==
    IF IsBareHash(h)
    THEN [route |-> Landing, writes |-> <<>>]
    ELSE LET legacyId == StrReplace(h, LegacyPrefix, <<>>)
             match == MatchCanonical(h)
         IN  IF StartsWith(h, LegacyPrefix) /\ Find(ds, legacyId) # <<>>
             THEN [route |-> Doc(legacyId), writes |-> <<>>]
             ELSE IF match # <<>> /\ Find(ds, match[1]) # <<>>
                  THEN [route |-> Doc(match[1]), writes |-> <<>>]
                  ELSE [route |-> Landing, writes |-> <<>>]

\* Mutant of ParseHash: the legacy rule rewrites the fragment before it has
\* looked the identifier up, and falls through when it is unknown.
ParseHashEagerRedirect(h, ds) ==
    IF IsBareHash(h)
    THEN [route |-> Landing, writes |-> <<>>]
    ELSE LET legacyId == StrReplace(h, LegacyPrefix, <<>>)
             match == MatchCanonical(h)
         IN  IF StartsWith(h, LegacyPrefix) /\ Find(ds, legacyId) # <<>>
             THEN [route |-> Doc(legacyId),
                   writes |-> <<CanonicalHash(legacyId)>>]
             ELSE IF StartsWith(h, LegacyPrefix)
                  THEN [route |-> Landing,
                        writes |-> <<CanonicalHash(legacyId)>>]
                  ELSE IF match # <<>> /\ Find(ds, match[1]) # <<>>
                       THEN [route |-> Doc(match[1]), writes |-> <<>>]
                       ELSE [route |-> Landing, writes |-> <<>>]

\* parseHash() on window.location.hash = h with registry ds: the Route it
\* returns and the values it assigns to window.location.hash, in order.
ParseHash(h, ds) ==
    IF IsBareHash(h)
    THEN [route |-> Landing, writes |-> <<>>]
    ELSE LET legacyId == StrReplace(h, LegacyPrefix, <<>>)
             match == MatchCanonical(h)
         IN  IF StartsWith(h, LegacyPrefix) /\ Find(ds, legacyId) # <<>>
             THEN [route |-> Doc(legacyId),
                   writes |-> <<CanonicalHash(legacyId)>>]
             ELSE IF match # <<>> /\ Find(ds, match[1]) # <<>>
                  THEN [route |-> Doc(match[1]), writes |-> <<>>]
                  ELSE [route |-> Landing, writes |-> <<>>]

(***************************************************************************)
(* The browser: location.hash, session history, hashchange events          *)
(***************************************************************************)
\* The browser state as a record.
Browser == [entries |-> entries, idx |-> idx, pending |-> pending]

\* window.location.hash (getter)
LocationHash(b) == b.entries[b.idx]

\* The value location.hash reads after the assignment location.hash = v:
\* one leading "#" of v is dropped, and an empty fragment reads as "".
HashOf(v) ==
    LET frag == IF Len(v) >= 1 /\ v[1] = "#" THEN Tail(v) ELSE v
    IN  IF frag = <<>> THEN <<>> ELSE <<"#">> \o frag

\* The session history after a new entry h is added behind the current one:
\* the forward entries are discarded, and the oldest entry beyond MaxHist.
Pushed(b, h) ==
    LET kept == SubSeq(b.entries, 1, b.idx) \o <<h>>
    IN  IF Len(kept) > MaxHist THEN Tail(kept) ELSE kept

\* The session history with the current entry replaced by h.
Replaced(b, h) == [b.entries EXCEPT ![b.idx] = h]

\* window.location.hash = v.  Nothing happens when the fragment is the
\* current one; otherwise the browser navigates to the fragment (adding an
\* entry, or replacing the current one when mode = "replace") and queues a
\* hashchange event.
AssignHash(b, v, mode) ==
    IF HashOf(v) = LocationHash(b)
    THEN b
    ELSE IF mode = "replace"
         THEN [entries |-> Replaced(b, HashOf(v)),
               idx |-> b.idx,
               pending |-> b.pending + 1]
         ELSE [entries |-> Pushed(b, HashOf(v)),
               idx |-> Len(Pushed(b, HashOf(v))),
               pending |-> b.pending + 1]

\* Mutant of PushState: history.replaceState, the current entry is replaced.
ReplaceState(b) ==
    [entries |-> Replaced(b, <<>>),
     idx |-> b.idx,
     pending |-> b.pending]

\* history.pushState(null, '', window.location.pathname): a new entry whose
\* URL has no fragment; no hashchange event is raised.
PushState(b) ==
    [entries |-> Pushed(b, <<>>),
     idx |-> Len(Pushed(b, <<>>)),
     pending |-> b.pending]

\* The browser after the assignments ws made by one run of parseHash.
RECURSIVE AssignAll(_, _, _)
AssignAll(b, ws, mode) ==
    IF ws = <<>> THEN b
    ELSE AssignAll(AssignHash(b, Head(ws), mode), Tail(ws), mode)

(***************************************************************************)
(* Inputs                                                                  *)
(***************************************************************************)
\* An identifier no registry holds.
UnknownId == <<"z", "z">>

\* The ids of the records a session refers to.
Linked(ds) ==
    {ds[i].id : i \in 1..(IF Len(ds) < MaxLinked THEN Len(ds) ELSE MaxLinked)}

\* The docIds navigate is called with and fragments are built from: the ids
\* of the linked records, an unknown id and the empty string.
NavIds(ds) == Linked(ds) \cup {UnknownId, <<>>}

\* The routes navigate is called with.
Routes(ds) == {Landing} \cup {Doc(d) : d \in NavIds(ds)}

\* Fragments that are neither bare, canonical nor legacy, or that carry a
\* second path segment.
Malformed(ds) ==
    { <<"#">> \o ds[1].id,
      CanonicalHash(ds[1].id) \o <<"/", "x">> }

\* The values of location.hash the user may open, type or follow a link to.
Fragments(ds) ==
    {<<>>, <<"#">>, <<"#", "/">>}
        \cup {CanonicalHash(d) : d \in NavIds(ds)}
        \cup {LegacyHash(d) : d \in NavIds(ds)}
        \cup Malformed(ds)

\* The inputs of each build.
RoutesOf == [b \in Builds |-> Routes(RegistryOf(b))]
FragmentsOf == [b \in Builds |-> Fragments(RegistryOf(b))]

(***************************************************************************)
(* useHashRouter                                                           *)
(***************************************************************************)
\* window.location.hash of the current entry.
hash == entries[idx]

\* useState<Route>(parseHash) on the page opened at fragment h0.  A legacy
\* fragment is rewritten while the page loads: the browser adds an entry or
\* replaces the current one, and the hashchange event it raises is handled
\* only if the listener (registered by the effect) is in place in time.
Init ==
    \E b \in Builds : \E h0 \in FragmentsOf[b] :
    \E mode \in {"push", "replace"}, heard \in BOOLEAN :
        LET b0 == [entries |-> <<h0>>, idx |-> 1, pending |-> 0]
            p == ParseHash(h0, RegistryOf(b))
            b1 == AssignAll(b0, p.writes, mode)
        IN  /\ build = b
            /\ entries = b1.entries
            /\ idx = b1.idx
            /\ route = p.route
            /\ pending = IF heard THEN b1.pending ELSE 0

\* Mutant of HandleHashChange: the handler takes the event and sets the
\* route it already holds, setRoute(route).
HandleHashChangeKeepsRoute ==
    /\ pending > 0
    /\ entries' = entries
    /\ idx' = idx
    /\ pending' = pending - 1
    /\ route' = route
    /\ UNCHANGED build

\* handleHashChange: setRoute(parseHash()), run for one queued event.
HandleHashChange ==
    /\ pending > 0
    /\ LET p == ParseHash(hash, docs)
           b1 == AssignAll([Browser EXCEPT !.pending = pending - 1],
                           p.writes, "push")
       IN  /\ entries' = b1.entries
           /\ idx' = b1.idx
           /\ pending' = b1.pending
           /\ route' = p.route
    /\ UNCHANGED build

\* Mutant of Navigate: the landing route is reached by clearing
\* location.hash and leaving the state to the hashchange handler.
NavigateLandingByHash(newRoute) ==
    /\ LET b1 == AssignHash(Browser,
                            IF newRoute.type = "landing"
                            THEN <<>>
                            ELSE CanonicalHash(newRoute.docId),
                            "push")
       IN  /\ b1.pending <= MaxPending
           /\ entries' = b1.entries
           /\ idx' = b1.idx
           /\ pending' = b1.pending
           /\ route' = route
    /\ UNCHANGED build

\* Mutant of Navigate: setRoute(newRoute) is called for a document route
\* too.
NavigateSetsRoute(newRoute) ==
    /\ IF newRoute.type = "landing"
       THEN /\ entries' = PushState(Browser).entries
            /\ idx' = PushState(Browser).idx
            /\ pending' = PushState(Browser).pending
            /\ route' = newRoute
       ELSE LET b1 == AssignHash(Browser, CanonicalHash(newRoute.docId), "push")
            IN  /\ b1.pending <= MaxPending
                /\ entries' = b1.entries
                /\ idx' = b1.idx
                /\ pending' = b1.pending
                /\ route' = newRoute
    /\ UNCHANGED build

\* Mutant of Navigate: for the landing route only setRoute is called; the
\* URL keeps its fragment.
NavigateLandingKeepsHash(newRoute) ==
    /\ IF newRoute.type = "landing"
       THEN /\ entries' = entries
            /\ idx' = idx
            /\ pending' = pending
            /\ route' = newRoute
       ELSE LET b1 == AssignHash(Browser, CanonicalHash(newRoute.docId), "push")
            IN  /\ b1.pending <= MaxPending
                /\ entries' = b1.entries
                /\ idx' = b1.idx
                /\ pending' = b1.pending
                /\ route' = route
    /\ UNCHANGED build

\* Mutant of Navigate: the document entry is made with history.pushState,
\* which raises no hashchange event.
NavigateDocByPushState(newRoute) ==
    /\ IF newRoute.type = "landing"
       THEN /\ entries' = PushState(Browser).entries
            /\ idx' = PushState(Browser).idx
            /\ pending' = PushState(Browser).pending
            /\ route' = newRoute
       ELSE /\ entries' = Pushed(Browser, CanonicalHash(newRoute.docId))
            /\ idx' = Len(Pushed(Browser, CanonicalHash(newRoute.docId)))
            /\ pending' = pending
            /\ route' = route
    /\ UNCHANGED build

\* navigate(newRoute)
Navigate(newRoute) ==
    /\ IF newRoute.type = "landing"
       THEN /\ entries' = PushState(Browser).entries
            /\ idx' = PushState(Browser).idx
            /\ pending' = PushState(Browser).pending
            /\ route' = newRoute
       ELSE LET b1 == AssignHash(Browser, CanonicalHash(newRoute.docId), "push")
            IN  /\ b1.pending <= MaxPending
                /\ entries' = b1.entries
                /\ idx' = b1.idx
                /\ pending' = b1.pending
                /\ route' = route
    /\ UNCHANGED build

(***************************************************************************)
(* The user at the browser                                                 *)
(***************************************************************************)
\* The user types a fragment into the address bar or follows a link to it.
FragmentChange(h) ==
    /\ h # hash
    /\ pending < MaxPending
    /\ entries' = Pushed(Browser, h)
    /\ idx' = Len(Pushed(Browser, h))
    /\ pending' = pending + 1
    /\ UNCHANGED <<build, route>>

\* The browser moves to the entry at position i; a hashchange event is
\* raised when the fragment differs.
Traverse(i) ==
    /\ i \in 1..Len(entries)
    /\ IF entries[i] # hash
       THEN /\ pending < MaxPending
            /\ pending' = pending + 1
       ELSE pending' = pending
    /\ idx' = i
    /\ UNCHANGED <<build, entries, route>>

\* Browser Back button.
Back == Traverse(idx - 1)

\* Browser Forward button.
Forward == Traverse(idx + 1)

(***************************************************************************)
(* App                                                                     *)
(***************************************************************************)
\* The builds the App is checked with.
AppBuilds == {"current", "earlier"}

\* What the user types into the search box: nothing, white space only, a
\* padded upper-case word, a word of descriptions, a word in mixed case, a
\* part of ids only, and a word no record holds.
Queries ==
    { <<>>,
      <<" ", " ">>,
      <<" ", "E", "A", "D", "V", " ">>,
      <<"s", "y", "n", "t", "a", "x">>,
      <<"R", "e">>,
      <<"-", "r", "e", "f", "e", "r", "e", "n", "c", "e">>,
      <<"z", "z", "z">> }

\* What localStorage holds under 'theme' when the page is opened: nothing,
\* the empty string, a value this App wrote, or a value something else
\* wrote.
SavedThemes == {<<>>, <<"">>, <<"light">>, <<"dark">>, <<"blue">>}

\* Mutant of FilteredDocs: the id is searched as well.
FilteredDocsById(ds, text) ==
    LET q == ToLowerCase(Trim(text))
        matches(doc) ==
            \/ Includes(ToLowerCase(doc.id), q)
            \/ Includes(ToLowerCase(doc.title), q)
            \/ Includes(ToLowerCase(doc.description), q)
    IN  IF q = <<>> THEN ds ELSE SelectSeq(ds, matches)

\* Mutant of FilteredDocs: the matches are listed last first.
FilteredDocsReversed(ds, text) ==
    LET q == ToLowerCase(Trim(text))
        matches(doc) ==
            \/ Includes(ToLowerCase(doc.title), q)
            \/ Includes(ToLowerCase(doc.description), q)
        found == SelectSeq(ds, matches)
    IN  IF q = <<>> THEN ds
        ELSE [k \in 1..Len(found) |-> found[Len(found) + 1 - k]]

\* Mutant of FilteredDocs: the search text is not trimmed.
FilteredDocsUntrimmed(ds, text) ==
    LET q == ToLowerCase(text)
        matches(doc) ==
            \/ Includes(ToLowerCase(doc.title), q)
            \/ Includes(ToLowerCase(doc.description), q)
    IN  IF q = <<>> THEN ds ELSE SelectSeq(ds, matches)

\* The useMemo callback of filteredDocs, for registry ds and search text
\* text.
FilteredDocs(ds, text) ==
    LET q == ToLowerCase(Trim(text))
        matches(doc) ==
            \/ Includes(ToLowerCase(doc.title), q)
            \/ Includes(ToLowerCase(doc.description), q)
    IN  IF q = <<>> THEN ds ELSE SelectSeq(ds, matches)

\* The value of the memo for each build and search text.
FilteredOf ==
    [b \in AppBuilds |-> [text \in Queries |-> FilteredDocs(RegistryOf(b), text)]]

\* filteredDocs
filteredDocs == FilteredOf[build][query]

\* The memo returns the registry itself, not a new array, for a search text
\* that trims to nothing.
IsRegistryItself(text) == ToLowerCase(Trim(text)) = <<>>

\* Mutant of InitialTheme: the media query is asked first, and a dark
\* answer wins over the stored item.
InitialThemeProbeFirst(saved, dark) ==
    IF dark
    THEN "dark"
    ELSE IF saved # <<>> /\ saved[1] # "" THEN saved[1] ELSE "light"

\* The initializer of useState<'light' | 'dark'>: saved is the item 'theme'
\* of localStorage, dark the answer of the media query.
InitialTheme(saved, dark) ==
    IF saved # <<>> /\ saved[1] # ""
    THEN saved[1]
    ELSE IF dark THEN "dark" ELSE "light"

\* activeDoc: docs.find((doc) => doc.id === selectedDocId) ?? docs[0]
activeDoc ==
    IF Find(docs, selectedDocId) # <<>>
    THEN Find(docs, selectedDocId)[1]
    ELSE docs[1]

\* What the sidebar lists: a button for each record of filteredDocs.
navItems == [i \in 1..Len(filteredDocs) |-> filteredDocs[i].id]

\* The sidebar shows "No matches found." in place of the buttons.
emptyState == Len(filteredDocs) = 0

\* What the <article> presents: the content of activeDoc, whatever the
\* filter shows.
article == <<activeDoc.content>>

\* The first render of App on a page whose storage holds saved and whose
\* media query answers dark; both effects are scheduled.
AppInit(saved, dark) ==
    /\ selectedDocId = docs[1].id
    /\ query = <<>>
    /\ theme = InitialTheme(saved, dark)
    /\ localStorage = saved
    /\ prefersDark = dark
    /\ rootDark = FALSE
    /\ effects = <<"selection", "theme">>

\* Mutant of SelectionEffect: a hidden selection moves to the last record
\* shown.
SelectionEffectLast ==
    /\ effects # <<>>
    /\ Head(effects) = "selection"
    /\ IF /\ Len(filteredDocs) # 0
          /\ ~\E i \in 1..Len(filteredDocs) : filteredDocs[i].id = selectedDocId
       THEN /\ selectedDocId' = filteredDocs[Len(filteredDocs)].id
            /\ effects' = Append(Tail(effects), "selection")
       ELSE /\ selectedDocId' = selectedDocId
            /\ effects' = Tail(effects)
    /\ UNCHANGED <<query, theme, localStorage, prefersDark, rootDark>>

\* Mutant of SelectionEffect: without the early return, an empty list sends
\* the selection back to the first record of the registry.
SelectionEffectResets ==
    /\ effects # <<>>
    /\ Head(effects) = "selection"
    /\ IF ~\E i \in 1..Len(filteredDocs) : filteredDocs[i].id = selectedDocId
       THEN /\ selectedDocId' =
                   IF Len(filteredDocs) # 0
                   THEN filteredDocs[1].id
                   ELSE docs[1].id
            /\ effects' = IF selectedDocId' # selectedDocId
                          THEN Append(Tail(effects), "selection")
                          ELSE Tail(effects)
       ELSE /\ selectedDocId' = selectedDocId
            /\ effects' = Tail(effects)
    /\ UNCHANGED <<query, theme, localStorage, prefersDark, rootDark>>

\* The effect on [filteredDocs, selectedDocId]: a selection the filter hides
\* moves to the first record shown; the new selection schedules the effect
\* again.
SelectionEffect ==
    /\ effects # <<>>
    /\ Head(effects) = "selection"
    /\ IF /\ Len(filteredDocs) # 0
          /\ ~\E i \in 1..Len(filteredDocs) : filteredDocs[i].id = selectedDocId
       THEN /\ selectedDocId' = filteredDocs[1].id
            /\ effects' = Append(Tail(effects), "selection")
       ELSE /\ selectedDocId' = selectedDocId
            /\ effects' = Tail(effects)
    /\ UNCHANGED <<query, theme, localStorage, prefersDark, rootDark>>

\* Mutant of ThemeEffect: the class is added for 'dark' and never removed.
ThemeEffectAddOnly ==
    /\ effects # <<>>
    /\ Head(effects) = "theme"
    /\ rootDark' = (rootDark \/ theme = "dark")
    /\ localStorage' = <<theme>>
    /\ effects' = Tail(effects)
    /\ UNCHANGED <<selectedDocId, query, theme, prefersDark>>

\* Mutant of ThemeEffect: the class is set and the theme is not saved.
ThemeEffectNoSave ==
    /\ effects # <<>>
    /\ Head(effects) = "theme"
    /\ rootDark' = (theme = "dark")
    /\ localStorage' = localStorage
    /\ effects' = Tail(effects)
    /\ UNCHANGED <<selectedDocId, query, theme, prefersDark>>

\* The effect on [theme]: the class of the root element and the stored
\* item follow the theme.
ThemeEffect ==
    /\ effects # <<>>
    /\ Head(effects) = "theme"
    /\ rootDark' = (theme = "dark")
    /\ localStorage' = <<theme>>
    /\ effects' = Tail(effects)
    /\ UNCHANGED <<selectedDocId, query, theme, prefersDark>>

\* Mutant of SetQuery: the effect does not watch the list,
\* useEffect(..., [selectedDocId]).
SetQueryUnwatched(text) ==
    /\ effects = <<>>
    /\ text # query
    /\ query' = text
    /\ effects' = <<>>
    /\ UNCHANGED <<selectedDocId, theme, localStorage, prefersDark, rootDark>>

\* onChange of the search box: setQuery(event.target.value).  The effects
\* of a commit run before the next event is handled.
SetQuery(text) ==
    /\ effects = <<>>
    /\ text # query
    /\ query' = text
    /\ effects' = IF IsRegistryItself(text) /\ IsRegistryItself(query)
                  THEN <<>>
                  ELSE <<"selection">>
    /\ UNCHANGED <<selectedDocId, theme, localStorage, prefersDark, rootDark>>

\* Mutant of SelectDoc: the click selects by the title of the record,
\* setSelectedDocId(doc.title).
SelectDocByTitle(docId) ==
    /\ effects = <<>>
    /\ \E i \in 1..Len(filteredDocs) : filteredDocs[i].id = docId
    /\ docId # selectedDocId
    /\ selectedDocId' = Find(docs, docId)[1].title
    /\ effects' = <<"selection">>
    /\ UNCHANGED <<query, theme, localStorage, prefersDark, rootDark>>

\* onClick of the button of a record the sidebar lists:
\* setSelectedDocId(doc.id).
SelectDoc(docId) ==
    /\ effects = <<>>
    /\ \E i \in 1..Len(filteredDocs) : filteredDocs[i].id = docId
    /\ docId # selectedDocId
    /\ selectedDocId' = docId
    /\ effects' = <<"selection">>
    /\ UNCHANGED <<query, theme, localStorage, prefersDark, rootDark>>

\* The updater of toggleTheme: (prev) => (prev === 'light' ? 'dark' : 'light')
Toggled(prev) == IF prev = "light" THEN "dark" ELSE "light"

\* toggleTheme: setTheme of the updater.
ToggleTheme ==
    /\ effects = <<>>
    /\ theme' = Toggled(theme)
    /\ effects' = <<"theme">>
    /\ UNCHANGED <<selectedDocId, query, localStorage, prefersDark, rootDark>>

\* The router at work; the App is at rest.
Next ==
    \/ HandleHashChange /\ UNCHANGED appVars
    \/ \E newRoute \in RoutesOf[build] : Navigate(newRoute) /\ UNCHANGED appVars
    \/ \E h \in FragmentsOf[build] : FragmentChange(h) /\ UNCHANGED appVars
    \/ Back /\ UNCHANGED appVars
    \/ Forward /\ UNCHANGED appVars

\* The page once loaded: the router as constructed, and the App after its
\* first render and the effects of it, with nothing stored and a light
\* colour scheme.
InitSite ==
    /\ Init
    /\ selectedDocId = docs[1].id
    /\ query = <<>>
    /\ theme = InitialTheme(<<>>, FALSE)
    /\ localStorage = <<InitialTheme(<<>>, FALSE)>>
    /\ prefersDark = FALSE
    /\ rootDark = FALSE
    /\ effects = <<>>

Spec == InitSite /\ [][Next]_vars

\* parseHash of every fragment a session of each build can meet.
ParsedOf ==
    [b \in Builds |-> [h \in FragmentsOf[b] |-> ParseHash(h, RegistryOf(b))]]

\* handleHashChange with the result of parseHash read from ParsedOf: the
\* same step as HandleHashChange, in the form the fairness condition is
\* evaluated on.
HandleHashChangeTabled ==
    /\ pending > 0
    /\ LET p == ParsedOf[build][hash]
           b1 == AssignAll([Browser EXCEPT !.pending = pending - 1],
                           p.writes, "push")
       IN  /\ entries' = b1.entries
           /\ idx' = b1.idx
           /\ pending' = b1.pending
           /\ route' = p.route
    /\ UNCHANGED build

\* The router with the event loop of the browser at work: a queued
\* hashchange event is dispatched to the listener sooner or later.
SpecLive == Spec /\ WF_vars(HandleHashChangeTabled /\ UNCHANGED appVars)

\* The page opened without a fragment, for any stored theme and answer of
\* the media query.
InitApp ==
    \E b \in AppBuilds, saved \in SavedThemes, dark \in BOOLEAN :
        /\ build = b
        /\ entries = <<<<>>>>
        /\ idx = 1
        /\ route = ParseHash(<<>>, RegistryOf(b)).route
        /\ pending = 0
        /\ AppInit(saved, dark)

\* The App at work; the router is at rest.
NextApp ==
    \/ SelectionEffect /\ UNCHANGED <<build, routerVars>>
    \/ ThemeEffect /\ UNCHANGED <<build, routerVars>>
    \/ \E text \in Queries : SetQuery(text) /\ UNCHANGED <<build, routerVars>>
    \/ \E i \in 1..Len(docs) :
           SelectDoc(docs[i].id) /\ UNCHANGED <<build, routerVars>>
    \/ ToggleTheme /\ UNCHANGED <<build, routerVars>>

SpecApp == InitApp /\ [][NextApp]_vars

(***************************************************************************)
(* Properties                                                              *)
(***************************************************************************)
\* The fragments that name a registry record, in canonical or legacy form.
Registered(ds) ==
    {CanonicalHash(d) : d \in Ids(ds)} \cup {LegacyHash(d) : d \in Ids(ds)}

\* The step the fairness condition of SpecLive names is the step of the
\* handler.
TabledHandlerIsHandler ==
    [][HandleHashChangeTabled <=> HandleHashChange]_vars

\* The history and the event queue are as the bounds say.
TypeOK ==
    /\ build \in Builds
    /\ Len(entries) \in 1..MaxHist
    /\ idx \in 1..Len(entries)
    /\ pending \in 0..MaxPending

\* C1: in every reachable state the route is Landing or Doc(docId) with docId
\* the id of a registry record; no Doc route with a dangling docId is
\* reachable, whatever navigate is called with and whatever fragment the
\* user enters.
C1_RouteNeverDangling ==
    \/ route = Landing
    \/ \E d \in Ids(docs) : route = Doc(d)

\* C1 witness: the user was on a document, navigate was called with an id no
\* record has, the event was handled, and the route degraded to Landing.
C1_Witness ==
    /\ idx > 1
    /\ entries[idx - 1] \in {CanonicalHash(d) : d \in Ids(docs)}
    /\ hash = CanonicalHash(UnknownId)
    /\ pending = 0
    /\ route = Landing

\* C2: for every registry id d, the fragment navigate(Doc(d)) writes parses to
\* exactly Doc(d) with no assignment to the fragment, and the handler run on
\* "#/" + d sets the route to Doc(d) and leaves the history as it is.
C2_RoundTrip ==
    /\ [][\A d \in Ids(docs) :
            Navigate(Doc(d)) =>
                ParseHash(hash', docs) = [route |-> Doc(d), writes |-> <<>>]]_vars
    /\ [][\A d \in Ids(docs) :
            (hash = CanonicalHash(d) /\ HandleHashChange) =>
                (route' = Doc(d) /\ entries' = entries /\ idx' = idx)]_vars

\* C2 witness: from the landing entry, navigate(Doc(d)) wrote "#/" + d and the
\* handler resolved it to Doc(d).
C2_Witness ==
    \E d \in Ids(docs) :
        /\ idx > 1
        /\ entries[idx - 1] = <<>>
        /\ hash = CanonicalHash(d)
        /\ pending = 0
        /\ route = Doc(d)

\* C3: a fragment that is neither "#/" + id nor "#doc-" + id for a registry id
\* parses to Landing, an ordinary route value, and nothing is written.
C3_FailSoft ==
    [][(hash \notin Registered(docs) /\ HandleHashChange) =>
            (route' = Landing /\ entries' = entries /\ idx' = idx)]_vars

\* C3 witness: from a document, the fragment "#/<id>/x" was entered and
\* handled, and the route is Landing.
C3_Witness ==
    /\ idx > 1
    /\ entries[idx - 1] = CanonicalHash(docs[1].id)
    /\ hash = CanonicalHash(docs[1].id) \o <<"/", "x">>
    /\ pending = 0
    /\ route = Landing

\* C4: the empty fragment, "#" and "#/" parse to Landing, before the legacy
\* and the canonical rule are tried: nothing is looked up or written.
C4_BareIsLanding ==
    [][(hash \in {<<>>, <<"#">>, <<"#", "/">>} /\ HandleHashChange) =>
            (route' = Landing /\ entries' = entries /\ idx' = idx)]_vars

\* C4 witness: from a document, the fragment became "#/" and was handled.
C4_Witness ==
    /\ idx > 1
    /\ entries[idx - 1] \in {CanonicalHash(d) : d \in Ids(docs)}
    /\ hash = <<"#", "/">>
    /\ pending = 0
    /\ route = Landing

\* C5: for every registry id d, parsing "#doc-" + d returns Doc(d) and, in the
\* same parse, sets the fragment to "#/" + d.
C5_LegacyRedirect ==
    [][\A d \in Ids(docs) :
            (hash = LegacyHash(d) /\ HandleHashChange) =>
                (route' = Doc(d) /\ hash' = CanonicalHash(d))]_vars

\* C5 witness: the legacy fragment of the first record was parsed: the entry
\* after it is the canonical one and the event of the rewrite is queued.
C5_Witness ==
    /\ idx > 1
    /\ entries[idx - 1] = LegacyHash(docs[1].id)
    /\ hash = CanonicalHash(docs[1].id)
    /\ pending = 1
    /\ route = Doc(docs[1].id)

\* C6: for every x that is no registry id (the empty string included), parsing
\* "#doc-" + x resolves to Landing and leaves the fragment as it is.
C6_LegacyUnknownNoRewrite ==
    [][(/\ StartsWith(hash, LegacyPrefix)
        /\ SubSeq(hash, Len(LegacyPrefix) + 1, Len(hash)) \notin Ids(docs)
        /\ HandleHashChange) =>
            (route' = Landing /\ hash' = hash /\ entries' = entries /\ idx' = idx)]_vars

\* C6 witness: from a document, "#doc-" + an unknown id was entered and
\* handled; the fragment is still the legacy one and the route is Landing.
C6_Witness ==
    /\ idx > 1
    /\ entries[idx - 1] \in {CanonicalHash(d) : d \in Ids(docs)}
    /\ hash \in {LegacyHash(UnknownId), LegacyHash(<<>>)}
    /\ pending = 0
    /\ route = Landing

\* C7: when the handler rewrites "#doc-" + d, the fragment it leaves parses to
\* the same route with no further assignment, and the handler run raised by
\* the rewrite changes neither the route nor the history: the chain of
\* rewrites has length one.
C7_RewriteFixpoint ==
    /\ [][\A d \in Ids(docs) :
            (hash = LegacyHash(d) /\ HandleHashChange) =>
                /\ hash' # hash
                /\ ParseHash(hash', docs) = [route |-> route', writes |-> <<>>]]_vars
    /\ [][\A d \in Ids(docs) :
            (/\ idx > 1
             /\ entries[idx - 1] = LegacyHash(d)
             /\ hash = CanonicalHash(d)
             /\ HandleHashChange) =>
                (route' = Doc(d) /\ entries' = entries /\ idx' = idx)]_vars

\* C7 witness: an id that itself begins with "doc-" went through the rewrite
\* and the re-parse: the legacy entry, then the canonical one, no event left.
C7_Witness ==
    \E d \in Ids(docs) :
        /\ StartsWith(d, <<"d", "o", "c", "-">>)
        /\ idx > 1
        /\ entries[idx - 1] = LegacyHash(d)
        /\ hash = CanonicalHash(d)
        /\ pending = 0
        /\ route = Doc(d)

\* C8: navigate(Landing) leaves the URL with an empty fragment, sets the
\* route to Landing in the same call, and raises no hashchange event.
C8_NavigateLanding ==
    [][Navigate(Landing) =>
            (hash' = <<>> /\ route' = Landing /\ pending' = pending)]_vars

\* C8 witness: from a document with no event queued, navigate(Landing) ran.
C8_Witness ==
    /\ idx > 1
    /\ entries[idx - 1] \in {CanonicalHash(d) : d \in Ids(docs)}
    /\ hash = <<>>
    /\ pending = 0
    /\ route = Landing

\* C9 as stated: navigate(Landing) replaces the current history entry, so the
\* number of entries and the position in the history do not change.
C9_Original ==
    [][Navigate(Landing) =>
            (Len(entries') = Len(entries) /\ idx' = idx)]_vars

\* C9 as amended: navigate(Landing) adds a history entry with an empty
\* fragment behind the current entry, which is kept as its predecessor; it
\* becomes the last entry of the history.
C9_PushesEntry ==
    [][Navigate(Landing) =>
            /\ idx' > 1
            /\ idx' = Len(entries')
            /\ entries'[idx'] = <<>>
            /\ entries'[idx' - 1] = entries[idx]]_vars

\* C9 witness: navigate(Landing) ran while the event of a navigate(Doc(d)) was
\* still queued: the document entry is kept in front of the new entry.
C9_Witness ==
    /\ idx > 1
    /\ entries[idx - 1] \in {CanonicalHash(d) : d \in Ids(docs)}
    /\ hash = <<>>
    /\ pending = 1
    /\ route = Landing

\* C10: navigate(Doc(d)) sets the fragment to "#/" + d and leaves the route
\* as it is; the route changes only in the hashchange handler (or in
\* navigate(Landing)).
C10_NavigateDocDefers ==
    /\ [][\A d \in NavIds(docs) :
            Navigate(Doc(d)) => (hash' = CanonicalHash(d) /\ route' = route)]_vars
    /\ [][route' # route => (HandleHashChange \/ Navigate(Landing))]_vars

\* C10 witness: on the landing route, navigate(Doc(d)) has set the fragment
\* and queued the event; the route is still Landing.
C10_Witness ==
    \E d \in Ids(docs) :
        /\ idx > 1
        /\ entries[idx - 1] = <<>>
        /\ hash = CanonicalHash(d)
        /\ pending = 1
        /\ route = Landing

\* C11: the selected document follows the route: once the fragment has
\* resolved to Doc(d), at startup or after a change to "#/" + d, and the
\* handlers and effects have run, selectedDocId is d.  (That selectedDocId
\* starts as the id of the first record is AppInit and is not in question.)
C11_SelectedFollowsRoute ==
    (pending = 0 /\ effects = <<>> /\ route.type = "doc")
        => selectedDocId = route.docId

\* The ids of the records a filter shows.
Shown == Ids(filteredDocs)

\* C12: selection repair: setQuery(q) leaves selectedDocId alone and
\* schedules the selection effect; when filteredDocs(q) is non-empty and
\* does not hold selectedDocId, the effect sets selectedDocId to the id of
\* the first record of filteredDocs(q), and when filteredDocs(q) still holds
\* selectedDocId the effect leaves it unchanged.
C12_SelectionRepair ==
    [][ /\ (query' # query) =>
              /\ selectedDocId' = selectedDocId
              /\ (FilteredOf[build][query'] # filteredDocs
                     => effects' = <<"selection">>)
        /\ (effects # <<>> /\ Head(effects) = "selection") =>
              IF Shown # {} /\ selectedDocId \notin Shown
              THEN selectedDocId' = FilteredOf[build][query][1].id
              ELSE Shown # {} => selectedDocId' = selectedDocId ]_vars

\* A search that hides the selection has been typed, and the effect has
\* moved the selection to the first record shown, which is not the first of
\* the registry.
C12_Witness ==
    /\ effects = <<"selection">>
    /\ Len(filteredDocs) \in 1..(Len(docs) - 1)
    /\ selectedDocId = filteredDocs[1].id
    /\ selectedDocId # docs[1].id
    /\ query = <<" ", "E", "A", "D", "V", " ">>

\* C13: while filteredDocs is empty no step changes selectedDocId (the
\* effect does not force a selection, and the query that ends the empty
\* list does not either), and the effect that runs after a query whose list
\* holds selectedDocId leaves it unchanged too.
C13_EmptyKeepsSelection ==
    [][ /\ Shown = {} => selectedDocId' = selectedDocId
        /\ (effects # <<>> /\ selectedDocId \in Shown)
              => selectedDocId' = selectedDocId ]_vars

\* The list is empty, the effect has run, and the selection is still a
\* document the user chose earlier.
C13_Witness ==
    /\ Len(filteredDocs) = 0
    /\ effects = <<>>
    /\ selectedDocId # docs[1].id

\* C14: when filteredDocs is empty the UI shows the empty-state indicator
\* instead of a document: no content of a document is presented.
C14_EmptyStateInsteadOfDocument ==
    Len(filteredDocs) = 0 => (emptyState /\ article = <<>>)

\* n occurs in s as a run of consecutive characters.
IsSubstring(n, s) ==
    \E k \in 0..(Len(s) - Len(n)) : \A j \in 1..Len(n) : s[k + j] = n[j]

\* s holds n when case is ignored.
ContainsIgnoringCase(s, n) == IsSubstring(ToLowerCase(n), ToLowerCase(s))

\* The position of record r in the registry.
Position(r) == CHOOSE i \in 1..Len(docs) : docs[i] = r

\* C15: a registry record r is in filteredDocs(q) if and only if
\* trim(lower(q)) is empty, or is a substring of lower(r.title), or is a
\* substring of lower(r.description); a record that differs from r in id and
\* content only is filtered as r is.
C15_FilterPredicate ==
    LET needle == Trim(ToLowerCase(query))
    IN  \A i \in 1..Len(docs) :
            LET r == docs[i]
                other == [r EXCEPT !.id = <<"x">>, !.content = "x.md"]
            IN  /\ (\E k \in 1..Len(filteredDocs) : filteredDocs[k] = r)
                       <=> \/ needle = <<>>
                           \/ IsSubstring(needle, ToLowerCase(r.title))
                           \/ IsSubstring(needle, ToLowerCase(r.description))
                /\ (FilteredDocs(<<other>>, query) = <<other>>)
                       <=> (FilteredDocs(<<r>>, query) = <<r>>)

\* The search text occurs in the id of a record and in no title or
\* description: nothing is listed.
C15_Witness ==
    /\ Len(filteredDocs) = 0
    /\ \E i \in 1..Len(docs) : IsSubstring(query, docs[i].id)

\* C16 as stated: every record of filteredDocs(q) contains q itself, case
\* ignored, in its title or its description.
C16_Original ==
    \A k \in 1..Len(filteredDocs) :
        \/ ContainsIgnoringCase(filteredDocs[k].title, query)
        \/ ContainsIgnoringCase(filteredDocs[k].description, query)

\* C16: every record of filteredDocs(q) contains q without its leading and
\* trailing white space, case ignored, in its title or its description, and
\* filteredDocs(q) is a subsequence of the registry in registry order: each
\* of its records is a registry record, and they stand in strictly
\* increasing registry positions.
C16_FilterCorrect ==
    /\ \A k \in 1..Len(filteredDocs) :
          \/ ContainsIgnoringCase(filteredDocs[k].title, Trim(query))
          \/ ContainsIgnoringCase(filteredDocs[k].description, Trim(query))
    /\ \A k \in 1..Len(filteredDocs) :
          \E i \in 1..Len(docs) : docs[i] = filteredDocs[k]
    /\ \A k \in 1..(Len(filteredDocs) - 1) :
          Position(filteredDocs[k]) < Position(filteredDocs[k + 1])

\* A padded search text lists some records and hides others.
C16_Witness ==
    /\ Trim(query) # query
    /\ Len(filteredDocs) \in 1..(Len(docs) - 1)

\* Every character of s is white space.
IsBlank(s) == \A i \in 1..Len(s) : s[i] \in WhiteSpace

\* C17: the empty query, and every query of white space only, lists the
\* whole registry.
C17_BlankListsAll ==
    IsBlank(query) => filteredDocs = docs

\* A query of white space only has been typed.
C17_Witness ==
    /\ query # <<>>
    /\ IsBlank(query)
    /\ filteredDocs = docs
    /\ effects = <<>>

\* C18: from any state, toggleTheme applied twice returns the theme to its
\* value before the first (the toggle of the theme a toggle gives is the
\* theme it started from), and once the effect of a toggle has run the item
\* stored under 'theme' equals the theme in memory.
C18_ThemeRoundTrip ==
    /\ [][theme' # theme => Toggled(theme') = theme]_vars
    /\ [](effects = <<>> => localStorage = <<theme>>)

\* The App has been rendered for the first time and no effect has run yet.
AtStartup == effects = <<"selection", "theme">>

\* C19 as stated: at startup the theme is the stored value if there is one,
\* whatever it is; otherwise 'dark' if the media query reports dark;
\* otherwise 'light'.
C19_Original ==
    AtStartup =>
        theme = IF localStorage # <<>>
                THEN localStorage[1]
                ELSE IF prefersDark THEN "dark" ELSE "light"

\* C19: at startup the theme is the stored value if there is one and it is
\* not the empty string; otherwise 'dark' if the media query reports dark;
\* otherwise 'light'.  A stored value that is not empty wins over the media
\* query.
C19_ThemeInitOrder ==
    AtStartup =>
        /\ (localStorage # <<>> /\ localStorage[1] # "")
               => theme = localStorage[1]
        /\ (localStorage = <<>> \/ localStorage = <<"">>)
               => (theme = "dark" <=> prefersDark) /\ (theme = "light" <=> ~prefersDark)

\* The page starts with 'light' stored while the media query reports dark.
C19_Witness ==
    /\ AtStartup
    /\ localStorage = <<"light">>
    /\ prefersDark
    /\ theme = "light"

\* C20: in every state the theme in memory is 'light' or 'dark', and once
\* the App has written the item 'theme' it holds one of those two literals,
\* whatever the storage held before startup.
C20_ThemeIsLiteral ==
    /\ theme \in {"light", "dark"}
    /\ (~AtStartup /\ localStorage # <<>>)
           => localStorage[1] \in {"light", "dark"}

\* The effect named e is scheduled and has not run yet.
Scheduled(e) == \E i \in 1..Len(effects) : effects[i] = e

\* C21: after startup and after every change of the theme, once the theme
\* effect has run, the root element carries the class 'dark' exactly when
\* the theme is 'dark'.
C21_DarkClassFollowsTheme ==
    ~Scheduled("theme") => (rootDark <=> theme = "dark")

\* The theme is 'light' and its effect has run on a system that prefers
\* dark: the root element carries no class 'dark'.
C21_Witness ==
    /\ effects = <<>>
    /\ prefersDark
    /\ localStorage = <<"light">>
    /\ theme = "light"
    /\ ~rootDark

\* Strings that resemble the ids of registry ds: the empty string, an
\* unknown id, and for each record its title, its id cut short, its id with
\* a character added and its id behind the legacy marker.
LookupProbes(ds) ==
    {<<>>, UnknownId}
        \cup {ds[i].title : i \in 1..Len(ds)}
        \cup {SubSeq(ds[i].id, 1, Len(ds[i].id) - 1) : i \in 1..Len(ds)}
        \cup {ds[i].id \o <<"x">> : i \in 1..Len(ds)}
        \cup {<<"d", "o", "c", "-">> \o ds[i].id : i \in 1..Len(ds)}

\* C22: for every registry record r the lookup of r.id returns r itself,
\* and for every string that equals no registry id the lookup returns
\* absent.
C22_RegistryLookup ==
    /\ \A i \in 1..Len(docs) : Find(docs, docs[i].id) = <<docs[i]>>
    /\ \A str \in LookupProbes(docs) :
          str \notin Ids(docs) => Find(docs, str) = <<>>

\* The lookup of activeDoc has returned a record that is not the first of
\* the registry.
C22_Witness ==
    /\ effects = <<>>
    /\ Find(docs, selectedDocId) = <<activeDoc>>
    /\ activeDoc # docs[1]
    /\ \E str \in LookupProbes(docs) : str \notin Ids(docs)

C24_SelectionIsRegistered ==
    /\ selectedDocId \in Ids(docs)
    /\ Find(docs, selectedDocId) # <<>>
    /\ activeDoc.id = selectedDocId

\* A record other than the first is selected while a search is in the box
\* and the theme has been stored.
C24_Witness ==
    /\ selectedDocId # docs[1].id
    /\ ~IsBlank(query)
    /\ localStorage = <<theme>>
    /\ effects = <<>>

\* C25: Back and Forward work with the router.  navigate keeps the entry it
\* leaves as the predecessor of the entry it makes, so Back leads to it; the
\* handler of the hashchange event that a move in the history raises sets
\* the route to the resolution of the fragment of the entry moved to; a
\* move between entries of the same fragment raises no event and needs
\* none.  So, with the events handled, back on the landing entry in front
\* of a document entry the route is Landing, and back on the entry of
\* document d in front of a landing entry the route is Doc(d).
C25_BackForward ==
    /\ [][\A r \in RoutesOf[build] :
            (r = Landing \/ CanonicalHash(r.docId) # hash) /\ Navigate(r)
                => (idx' > 1 /\ entries'[idx' - 1] = hash)]_vars
    /\ [][HandleHashChange => route' = ParseHash(hash, docs).route]_vars
    /\ [][(Back \/ Forward) =>
            (pending' > 0 \/ route' = ParseHash(hash', docs).route)]_vars
    /\ [](\A d \in Ids(docs) :
            (pending = 0 /\ idx < Len(entries)) =>
                /\ (hash = <<>> /\ entries[idx + 1] = CanonicalHash(d))
                       => route = Landing
                /\ (hash = CanonicalHash(d) /\ entries[idx + 1] = <<>>)
                       => route = Doc(d))

\* After navigate(Landing) from the entry of a document the user has
\* pressed Back and the event has been handled: the document is shown again.
C25_Witness ==
    \E d \in Ids(docs) :
        /\ pending = 0
        /\ idx < Len(entries)
        /\ hash = CanonicalHash(d)
        /\ entries[idx + 1] = <<>>
        /\ route = Doc(d)

\* C26: under every interleaving of navigate(Landing), navigate(Doc(d)),
\* fragment edits, moves in the history and queued hashchange events,
\* whenever no event is pending the route is the resolution of the current
\* fragment; each event is handled in one step that resolves the fragment
\* current at that time, and no step sets the route to anything but the
\* resolution of the fragment it leaves behind, so an event queued earlier
\* never brings back an older route.
C26_QuiescentConsistency ==
    /\ [](pending = 0 => route = ParseHash(hash, docs).route)
    /\ [][pending' < pending =>
            /\ pending' = pending - 1 + Len(ParseHash(hash, docs).writes)
            /\ route' = ParseHash(hash, docs).route]_vars
    /\ [][route' # route => route' = ParseHash(hash', docs).route]_vars

\* Two documents were opened one after the other and every event has been
\* handled: the route is the later one.
C26_Witness ==
    \E d, e \in Ids(docs) :
        /\ d # e
        /\ pending = 0
        /\ idx = Len(entries)
        /\ idx > 1
        /\ entries[idx - 1] = CanonicalHash(e)
        /\ hash = CanonicalHash(d)
        /\ route = Doc(d)

\* The ids the sessions of any build refer to.
LinkedIds == UNION {Linked(RegistryOf(b)) : b \in Builds}

\* C27: for every registry id d, after navigate(Doc(d)), if no navigation
\* or edit takes the fragment away from "#/" + d again and the pending
\* events are handled, the route eventually is Doc(d) and stays so; this
\* covers the call made while the fragment already was "#/" + d, which
\* raises no event.
C27_DocNavigationLive ==
    \A d \in LinkedIds :
        <>[](d \in Ids(docs) /\ hash = CanonicalHash(d))
            => <>[](route = Doc(d))

\* navigate(Doc(d)) was called on the landing view and its event has been
\* handled.
C27_Witness ==
    \E d \in Ids(docs) :
        /\ pending = 0
        /\ idx = Len(entries)
        /\ idx > 1
        /\ entries[idx - 1] = <<>>
        /\ hash = CanonicalHash(d)
        /\ route = Doc(d)

\* C28: the legacy rewrite is a migration made once for a legacy URL: when
\* the handler resolves "#doc-" + d and rewrites it to "#/" + d, no entry of
\* the history holds the legacy fragment any more, so that Back from the
\* rewritten entry cannot bring it up to be resolved and rewritten again.
C28_LegacyRewriteOnce ==
    [][\A d \in Ids(docs) :
          (hash = LegacyHash(d) /\ HandleHashChange)
              => \A i \in 1..Len(entries') : entries'[i] # LegacyHash(d)]_vars

\* C29: in every stable state (no run of the selection effect is due), if
\* filteredDocs is not empty then selectedDocId is the id of one of its
\* records; a sidebar click selects a record of the current filteredDocs
\* only and leaves the query unchanged.
C29_SelectionIsShown ==
    /\ []((~Scheduled("selection") /\ Shown # {}) => selectedDocId \in Shown)
    /\ [][(effects = <<>> /\ selectedDocId' # selectedDocId)
              => (selectedDocId' \in Shown /\ query' = query)]_vars

\* The second record of a list that shows a part of the registry has been
\* clicked.
C29_Witness ==
    /\ effects = <<>>
    /\ Len(filteredDocs) \in 2..(Len(docs) - 1)
    /\ selectedDocId = filteredDocs[2].id

\* C30 as stated: the item 'theme' is written on a toggle only: when nothing
\* is stored at startup and the user does not toggle, the item stays
\* absent.  (While the item is absent no toggle has been made: a toggle is
\* handled after the effects of the first render.)
C30_Original ==
    [][localStorage = <<>> => localStorage' = <<>>]_vars

\* C30: the item 'theme' is written by the theme effect only, with the
\* theme in memory; the effect runs after the first render and after every
\* toggle, so once it has run the item is set, also when nothing was stored
\* at startup and the user never toggled.
C30_WrittenByThemeEffect ==
    /\ [][localStorage' # localStorage =>
              /\ effects # <<>>
              /\ Head(effects) = "theme"
              /\ theme' = theme
              /\ localStorage' = <<theme>>]_vars
    /\ [](~Scheduled("theme") => localStorage # <<>>)

\* Nothing has been typed or selected, the system prefers dark, and the
\* effect of the first render has stored 'dark'.
C30_Witness ==
    /\ effects = <<>>
    /\ query = <<>>
    /\ selectedDocId = docs[1].id
    /\ prefersDark
    /\ theme = "dark"
    /\ localStorage = <<"dark">>

====
